---- MODULE Spec2Model ----
(***************************************************************************)
(* Model of the Telegram image bot: the two-step workflow (use-agent,      *)
(* send-reply), the agent's tool loop, and the three tools enhancePrompt,  *)
(* generateImage and generateAsciiArt with their external calls.           *)
(*                                                                         *)
(* Strings are run-length encoded: a text is a sequence of runs            *)
(* [c |-> piece, n |-> count].  The pieces " " (whitespace) and "a" (any   *)
(* non-whitespace character) repeat n times; every other piece is a word   *)
(* without whitespace of which the run holds the first n characters.       *)
(***************************************************************************)
EXTENDS Integers, Sequences, FiniteSets, TLC

\* ---------------------------------------------------------------- bounds
MaxRun == 1        \* longest run of one character in an input prompt
MaxBody == 1       \* longest response body, in bytes
Slack == 1         \* how far around a limit (0, 256, 500, 1024) the inputs of generateImage go
NumRequests == 2   \* requests processed concurrently

\* ------------------------------------------------------ program constants
maxSteps == 5
lastMessages == 10
MaxPromptLength == 500

\* ----------------------------------------------------------------- texts
WS == " "
Chars == {" ", "a", ","}

Run(c, n) == [c |-> c, n |-> n]

Lit(w, n) == <<Run(w, n)>>

Rep(c, n) == IF n = 0 THEN <<>> ELSE <<Run(c, n)>>

\* string concatenation (template literals, +)
Cat(s, t) ==
  IF s = <<>> THEN t
  ELSE IF t = <<>> THEN s
  ELSE IF s[Len(s)].c = t[1].c /\ t[1].c \in Chars
       THEN SubSeq(s, 1, Len(s) - 1)
            \o <<Run(t[1].c, s[Len(s)].n + t[1].n)>>
            \o SubSeq(t, 2, Len(t))
       ELSE s \o t

\* String.prototype.length
RECURSIVE length(_)
length(t) == IF t = <<>> THEN 0 ELSE t[1].n + length(Tail(t))

RECURSIVE trimStart(_)
trimStart(t) ==
  IF t = <<>> THEN <<>>
  ELSE IF t[1].c = WS THEN trimStart(Tail(t)) ELSE t

RECURSIVE trimEnd(_)
trimEnd(t) ==
  IF t = <<>> THEN <<>>
  ELSE IF t[Len(t)].c = WS THEN trimEnd(SubSeq(t, 1, Len(t) - 1)) ELSE t

\* String.prototype.trim
trim(t) == trimEnd(trimStart(t))

\* String.prototype.substring(0, k)
RECURSIVE substring(_, _)
substring(t, k) ==
  IF t = <<>> \/ k <= 0 THEN <<>>
  ELSE IF t[1].n <= k THEN <<t[1]>> \o substring(Tail(t), k - t[1].n)
  ELSE <<Run(t[1].c, k)>>

\* !prompt || prompt.trim().length === 0
isBlank(prompt) == prompt = <<>> \/ length(trim(prompt)) = 0

Str(lead, body, trail) == Cat(Cat(Rep(WS, lead), Rep("a", body)), Rep(WS, trail))

\* fixed message texts: one run holding the whole message
Msg(w) == <<Run(w, Len(w))>>

\* --------------------------------------------------------------- errors
\* a thrown value: an Error object with a message, or any other value
Err(m) == [isError |-> TRUE, message |-> m]

NonErr(s) == [isError |-> FALSE, str |-> s]

\* error instanceof Error ? error.message : String(error)
errorString(e) == IF e.isError THEN e.message ELSE e.str

\* error instanceof Error ? error.message : 'Unknown error'
errorOrUnknown(e) == IF e.isError THEN e.message ELSE Msg("Unknown error")

Thrown == { Err(Msg("network error")), NonErr(Msg("boom")) }

\* how a function ends
Return(v) == [kind |-> "return", value |-> v]

Throw(e) == [kind |-> "throw", error |-> e]

NoResult == [kind |-> "none"]

\* responses of generateText
ModelTexts == { <<>>, Str(1, 1, 1) }

\* ------------------------------------------------------- enhancePrompt
DefaultStyle == Lit("realistic", 9)

\* a template that spells the default style out instead of using the argument
fallbackPromptFixedStyle(originalPrompt, style) ==
  Cat(Cat(Cat(originalPrompt,
      Rep(",", 1) \o Rep(WS, 1) \o Lit("high", 4) \o Rep(WS, 1) \o Lit("quality", 7)
      \o Rep(",", 1) \o Rep(WS, 1) \o Lit("detailed", 8) \o Rep(",", 1) \o Rep(WS, 1)),
      DefaultStyle),
      Rep(WS, 1) \o Lit("style", 5) \o Rep(",", 1) \o Rep(WS, 1)
      \o Lit("professional", 12) \o Rep(WS, 1) \o Lit("photography", 11))

\* `${originalPrompt}, high quality, detailed, ${style} style, professional photography`
fallbackPrompt(originalPrompt, style) ==
  Cat(Cat(Cat(originalPrompt,
      Rep(",", 1) \o Rep(WS, 1) \o Lit("high", 4) \o Rep(WS, 1) \o Lit("quality", 7)
      \o Rep(",", 1) \o Rep(WS, 1) \o Lit("detailed", 8) \o Rep(",", 1) \o Rep(WS, 1)),
      style),
      Rep(WS, 1) \o Lit("style", 5) \o Rep(",", 1) \o Rep(WS, 1)
      \o Lit("professional", 12) \o Rep(WS, 1) \o Lit("photography", 11))

\* the catch block of enhancePrompt
enhanceCatch(error, originalPrompt, style) ==
  Return([success |-> FALSE,
          enhancedPrompt |-> fallbackPrompt(originalPrompt, style),
          originalPrompt |-> originalPrompt,
          style |-> style,
          message |-> Cat(Msg("Prompt enhancement failed, using fallback: "),
                          errorOrUnknown(error)),
          error |-> errorString(error)])

\* the try block of enhancePrompt after generateText resolved with text
enhanceSuccess(text, originalPrompt, style) ==
  Return([success |-> TRUE,
          enhancedPrompt |-> trim(text),
          originalPrompt |-> originalPrompt,
          style |-> style,
          message |-> Msg("Successfully enhanced prompt using Gemini AI")])

\* the validation that opens the try block of enhancePrompt
enhanceValidate(originalPrompt) ==
  IF isBlank(originalPrompt)
  THEN Throw(Err(Msg("Original prompt cannot be empty")))
  ELSE NoResult

\* ---------------------------------------------------- generateAsciiArt
fallbackArt == Msg("\n    shrug\n  Image generation\n   failed, but I\n    tried my best!\n    ")

fallbackDescription(prompt) ==
  Cat(Cat(Msg("I wanted to create something for \""), prompt),
      Msg("\" but encountered an error. Here's a friendly ASCII instead!"))

\* the catch block of generateAsciiArt
asciiCatch(error, prompt) ==
  Return([success |-> FALSE,
          asciiArt |-> fallbackArt,
          description |-> fallbackDescription(prompt),
          originalPrompt |-> prompt,
          message |-> Cat(Msg("ASCII art generation failed: "), errorOrUnknown(error)),
          error |-> errorString(error)])

\* the try block of generateAsciiArt after both generateText calls resolved
asciiSuccess(asciiArt, description, prompt) ==
  Return([success |-> TRUE,
          asciiArt |-> asciiArt,
          description |-> trim(description),
          originalPrompt |-> prompt,
          message |-> Msg("Created ASCII art representation using Gemini AI")])

asciiValidate(prompt) ==
  IF isBlank(prompt)
  THEN Throw(Err(Msg("Prompt cannot be empty")))
  ELSE NoResult

\* ------------------------------------------------------- generateImage
Null == [isNull |-> TRUE]

Some(v) == [isNull |-> FALSE, v |-> v]

MinDimension == 256
MaxDimension == 1024
DefaultDimension == 1024

\* the two limits applied the wrong way round: Math.max(Math.min(x, 256), 1024)
clampSwapped(x) ==
  LET upper == IF x < MinDimension THEN x ELSE MinDimension
  IN  IF upper > MaxDimension THEN upper ELSE MaxDimension

\* Math.min(Math.max(x, 256), 1024)
clamp(x) ==
  LET lower == IF x > MinDimension THEN x ELSE MinDimension
  IN  IF lower < MaxDimension THEN lower ELSE MaxDimension

\* encodeURIComponent: a space becomes %20 and a comma %2C, letters stay
RECURSIVE encodeURIComponent(_)
encodeURIComponent(t) ==
  IF t = <<>> THEN <<>>
  ELSE (IF t[1].c = WS THEN <<Run("%20", 3 * t[1].n)>>
        ELSE IF t[1].c = "," THEN <<Run("%2C", 3 * t[1].n)>>
        ELSE <<t[1]>>)
       \o encodeURIComponent(Tail(t))

\* https://image.pollinations.ai/prompt/${encodedPrompt}?width=${width}&height=${height}&seed=random
imageUrl(encodedPrompt, width, height) ==
  [base |-> "https://image.pollinations.ai/prompt/",
   prompt |-> encodedPrompt, width |-> width, height |-> height, seed |-> "random"]

\* a truncation that cuts one character early
truncatePromptShort(prompt) ==
  IF length(prompt) > MaxPromptLength THEN substring(prompt, MaxPromptLength - 1) ELSE prompt

\* prompt = prompt.substring(0, 500) when it is longer than 500
truncatePrompt(prompt) ==
  IF length(prompt) > MaxPromptLength THEN substring(prompt, MaxPromptLength) ELSE prompt

\* a validation that forgets the trim
imageValidateUntrimmed(prompt) ==
  IF prompt = <<>>
  THEN Throw(Err(Msg("Prompt cannot be empty")))
  ELSE NoResult

imageValidate(prompt) ==
  IF isBlank(prompt)
  THEN Throw(Err(Msg("Prompt cannot be empty")))
  ELSE NoResult

\* the request generateImage builds from its validated arguments
imageRequest(prompt, width, height) ==
  imageUrl(encodeURIComponent(trim(truncatePrompt(prompt))), clamp(width), clamp(height))

\* a catch block that logs and throws the error on
imageCatchRethrow(error, prompt) == Throw(error)

\* the catch block of generateImage; prompt is the variable as it stands at the throw
imageCatch(error, prompt) ==
  Return([success |-> FALSE,
          imageBase64 |-> Null,
          mimeType |-> Null,
          message |-> Cat(Cat(Msg("Image generation failed: "), errorOrUnknown(error)),
                          Msg(". Will try ASCII art fallback.")),
          originalPrompt |-> prompt,
          error |-> errorString(error)])

\* response.ok
responseOk(response) == response.status >= 200 /\ response.status <= 299

\* contentType.startsWith('image/')
startsWithImage(ct) == ct # <<>> /\ ct[1] = Run("image/", 6)

\* the two checks in the other order: content type first, then the status
imageCheckTypeFirst(response) ==
  IF response.contentType.isNull \/ response.contentType.v = <<>>
     \/ ~startsWithImage(response.contentType.v)
  THEN Throw(Err(Cat(Msg("Invalid content type received: "),
                     IF response.contentType.isNull THEN Msg("null")
                     ELSE response.contentType.v)))
  ELSE IF ~responseOk(response)
  THEN Throw(Err(Cat(Cat(Cat(Msg("Pollinations API failed: "), Msg(ToString(response.status))),
                         Rep(WS, 1)), response.statusText)))
  ELSE NoResult

\* checks that look at the status only
imageCheckStatusOnly(response) ==
  IF ~responseOk(response)
  THEN Throw(Err(Cat(Cat(Cat(Msg("Pollinations API failed: "), Msg(ToString(response.status))),
                         Rep(WS, 1)), response.statusText)))
  ELSE NoResult

\* the checks on the response between fetch and arrayBuffer
imageCheckResponse(response) ==
  IF ~responseOk(response)
  THEN Throw(Err(Cat(Cat(Cat(Msg("Pollinations API failed: "), Msg(ToString(response.status))),
                         Rep(WS, 1)), response.statusText)))
  ELSE IF response.contentType.isNull \/ response.contentType.v = <<>>
          \/ ~startsWithImage(response.contentType.v)
  THEN Throw(Err(Cat(Msg("Invalid content type received: "),
                     IF response.contentType.isNull THEN Msg("null")
                     ELSE response.contentType.v)))
  ELSE NoResult

\* Buffer.from(imageBuffer).toString('base64'): sextets 0..63, 64 is the '=' pad
RECURSIVE base64(_)
base64(bytes) ==
  IF bytes = <<>> THEN <<>>
  ELSE IF Len(bytes) = 1
  THEN <<bytes[1] \div 4, (bytes[1] % 4) * 16, 64, 64>>
  ELSE IF Len(bytes) = 2
  THEN <<bytes[1] \div 4, (bytes[1] % 4) * 16 + bytes[2] \div 16, (bytes[2] % 16) * 4, 64>>
  ELSE <<bytes[1] \div 4, (bytes[1] % 4) * 16 + bytes[2] \div 16,
         (bytes[2] % 16) * 4 + bytes[3] \div 64, bytes[3] % 64>>
       \o base64(SubSeq(bytes, 4, Len(bytes)))

\* the return of the try block of generateImage
imageSuccess(prompt, url, contentType, imageBuffer) ==
  Return([success |-> TRUE,
          imageBase64 |-> Some(base64(imageBuffer)),
          mimeType |-> contentType,
          message |-> Cat(Cat(Msg("Successfully generated image using free AI service for: \""),
                              prompt), Msg("\"")),
          originalPrompt |-> prompt,
          imageUrl |-> url])

\* inputs of the image service
ImagePng == Lit("image/", 6) \o Lit("png", 3)

TextHtml == Lit("text/", 5) \o Lit("html", 4)

Responses ==
  { [status |-> 200, statusText |-> Msg("OK"), contentType |-> Some(ImagePng)],
    [status |-> 200, statusText |-> Msg("OK"), contentType |-> Some(TextHtml)],
    [status |-> 200, statusText |-> Msg("OK"), contentType |-> Null],
    [status |-> 503, statusText |-> Msg("Service Unavailable"), contentType |-> Some(ImagePng)],
    [status |-> 503, statusText |-> Msg("Service Unavailable"), contentType |-> Some(TextHtml)] }

Bytes == { 137, 255 }

Bodies == UNION { [1..n -> Bytes] : n \in 0..MaxBody }

\* -------------------------------------------------- inbound envelope
JNull == [t |-> "null"]

JNum(n) == [t |-> "num", num |-> n]

JStr(str) == [t |-> "str", str |-> str]

JObj(fields) == [t |-> "obj", fields |-> fields]

Undefined == [t |-> "undefined"]

\* the message string of the workflow input: unparsable text, or the text of a JSON value
Unparsable == [parsable |-> FALSE]

Json(v) == [parsable |-> TRUE, json |-> v]

\* JSON.parse
JSONparse(raw) ==
  IF raw.parsable THEN Return(raw.json)
  ELSE Throw(Err(Msg("Unexpected token in JSON")))

\* v?.key
optionalMember(v, key) ==
  IF v.t = "obj" /\ key \in DOMAIN v.fields THEN v.fields[key] ELSE Undefined

\* v?.toString() || fallback for a chat id, v || fallback for a text: a number
\* is printed, a non-empty string is kept, undefined and "" give the fallback
stringOr(v, fallback) ==
  IF v.t = "num" THEN Msg(ToString(v.num))
  ELSE IF v.t = "str" /\ v.str # <<>> THEN v.str
  ELSE fallback

\* lines 29-31 of useAgentStep: parse the envelope, read chat id and text
parseMessage(raw) ==
  LET parsed == JSONparse(raw)
  IN  IF parsed.kind = "throw" THEN parsed
      ELSE IF parsed.value.t \in {"null", "undefined"}
      THEN Throw(Err(Msg("Cannot read properties of null (reading 'message')")))
      ELSE LET message == optionalMember(parsed.value, "message")
           IN  Return([chatId |-> stringOr(optionalMember(optionalMember(message, "chat"), "id"),
                                           Msg("unknown")),
                       messageText |-> stringOr(optionalMember(message, "text"), <<>>)])

Chat == JObj([k \in {"id"} |-> JNum(42)])

WithText(p) ==
  Json(JObj([k \in {"message"} |->
              JObj([j \in {"chat", "text"} |-> IF j = "chat" THEN Chat ELSE JStr(p)])]))

Envelopes ==
  { Unparsable, Json(JNull),
    Json(JObj([k \in {"update_id"} |-> JNum(1)])),
    Json(JObj([k \in {"message"} |-> JObj([j \in {"chat"} |-> Chat])])) }
  \cup { WithText(Str(l, b, 0)) : l \in 0..MaxRun, b \in 1..MaxRun }
  \cup { WithText(Rep(WS, MaxRun)) }

\* ------------------------------------------------------------- state
VARIABLES
  inputData,      \* the workflow input { message, threadId }
  wfPc,           \* where the workflow run stands
  stepOutput,     \* what use-agent returned to the workflow
  replyOutput,    \* what send-reply returned
  failure,        \* the exception that ended the run, if any
  locals,         \* chatId and messageText of useAgentStep
  steps,          \* model generations used by agent.generate
  text,           \* text of the latest model generation
  tool,           \* the tool call in progress
  toolOut,        \* how the latest tool call ended
  timer,          \* whether a timeout set by generateImage is still pending
  calls,          \* external calls issued in this request, per stage
  last,           \* per stage, how its latest invocation ended
  probe,          \* generateImage on its own: the latest request built, and the one before
  reqs,           \* concurrent requests: where each one stands in generateImage
  memory          \* concurrent requests: the agent's stored messages, per thread

\* state of the stage-level and concurrent views, untouched by a single workflow run
aside == <<probe, reqs, memory>>

vars == <<aside, inputData, wfPc, stepOutput, replyOutput, failure, locals, steps, text, tool, toolOut,
          timer, calls, last>>

Stages == {"enhance", "image", "ascii"}

Idle == [name |-> "none"]

AgentTexts == { Msg("Here you go") }

\* the workflow run before its first step
InitWorkflow(envelopes) ==
  /\ inputData \in { [message |-> m, threadId |-> "thread-1"] : m \in envelopes }
  /\ wfPc = "start"
  /\ stepOutput = NoResult
  /\ replyOutput = NoResult
  /\ failure = NoResult
  /\ locals = NoResult
  /\ steps = 0
  /\ text = <<>>
  /\ tool = Idle
  /\ toolOut = NoResult
  /\ timer = "none"
  /\ calls = [s \in Stages |-> 0]
  /\ last = [s \in Stages |-> "none"]

Init ==
  /\ InitWorkflow(Envelopes)
  /\ probe = NoResult
  /\ reqs = <<>>
  /\ memory = <<>>

\* ---------------------------------------------------------- workflow
\* useAgentStep up to the call of imageGeneratorAgent.generate
UseAgentStart ==
  /\ wfPc = "start"
  /\ LET parsed == parseMessage(inputData.message)
     IN  IF parsed.kind = "throw"
         THEN /\ wfPc' = "failed"
              /\ failure' = parsed
              /\ UNCHANGED locals
         ELSE /\ wfPc' = "agentModel"
              /\ locals' = [kind |-> "parsed", chatId |-> parsed.value.chatId,
                            messageText |-> parsed.value.messageText]
              /\ UNCHANGED failure
  /\ UNCHANGED <<aside, inputData, stepOutput, replyOutput, steps, text, tool, toolOut,
                 timer, calls, last>>

\* the return of useAgentStep
useAgentReturn(response) ==
  Return([response |-> response, chatId |-> locals.chatId,
          messageText |-> locals.messageText])

\* a tool call ends with out, in the generation numbered n: the agent goes on
\* to the next generation, or returns when maxSteps generations are used
Finish(name, prompt, out, n, issued, responses, response) ==
  /\ toolOut' = [kind |-> "ended", name |-> name, step |-> n, prompt |-> prompt,
                 out |-> out, issued |-> issued, responses |-> responses]
  /\ last' = [last EXCEPT ![name] =
                IF out.kind = "return" /\ out.value.success THEN "ok" ELSE "failed"]
  /\ tool' = Idle
  /\ IF n >= maxSteps
     THEN /\ wfPc' = "sendReply"
          /\ stepOutput' = useAgentReturn(response)
     ELSE /\ wfPc' = "agentModel"
          /\ UNCHANGED stepOutput

\* prompts the hosted model may pass to a tool
ArgPrompts ==
  IF wfPc # "agentModel" THEN {}
  ELSE {locals.messageText}
       \cup (IF toolOut.kind = "ended" /\ toolOut.name = "enhance" /\ toolOut.out.kind = "return"
             THEN {toolOut.out.value.enhancedPrompt} ELSE {})

StyleArgs == { Null, Some(Lit("cartoon", 7)) }

DimArgs == { <<Null, Null>>, <<Some(100), Some(2000)>> }

\* the hosted model answers with plain text: agent.generate resolves
AgentFinishes(t) ==
  /\ wfPc = "agentModel"
  /\ steps' = steps + 1
  /\ text' = t
  /\ stepOutput' = useAgentReturn(t)
  /\ wfPc' = "sendReply"
  /\ UNCHANGED <<aside, inputData, replyOutput, failure, locals, tool, toolOut,
                 timer, calls, last>>

\* the call of the hosted model fails: agent.generate rejects, useAgentStep throws
AgentFails(e) ==
  /\ wfPc = "agentModel"
  /\ wfPc' = "failed"
  /\ failure' = Throw(e)
  /\ UNCHANGED <<aside, inputData, stepOutput, replyOutput, locals, steps, text, tool, toolOut,
                 timer, calls, last>>

\* a reply step that reports the default chat id instead of the one it received
SendReplyDefaultChat ==
  /\ wfPc = "sendReply"
  /\ replyOutput' = Return([sent |-> TRUE, chatId |-> Msg("unknown")])
  /\ wfPc' = "done"
  /\ UNCHANGED <<aside, inputData, stepOutput, failure, locals, steps, text, tool, toolOut,
                 timer, calls, last>>

\* sendReplyStep
SendReply ==
  /\ wfPc = "sendReply"
  /\ replyOutput' = Return([sent |-> TRUE, chatId |-> stepOutput.value.chatId])
  /\ wfPc' = "done"
  /\ UNCHANGED <<aside, inputData, stepOutput, failure, locals, steps, text, tool, toolOut,
                 timer, calls, last>>

\* ----------------------------------------------------- enhancePrompt
\* the hosted model calls enhance-prompt-tool: validation, then generateText
AgentCallsEnhance(originalPrompt, styleArg, t) ==
  LET style == IF styleArg.isNull THEN DefaultStyle ELSE styleArg.v
      checked == enhanceValidate(originalPrompt)
  IN  /\ wfPc = "agentModel"
      /\ steps' = steps + 1
      /\ text' = t
      /\ IF checked.kind = "throw"
         THEN /\ Finish("enhance", originalPrompt,
                        enhanceCatch(checked.error, originalPrompt, style),
                        steps + 1, 0, <<>>, t)
              /\ UNCHANGED calls
         ELSE /\ tool' = [name |-> "enhance", pc |-> "generateText",
                          originalPrompt |-> originalPrompt, styleArg |-> styleArg,
                          style |-> style]
              /\ calls' = [calls EXCEPT !["enhance"] = @ + 1]
              /\ wfPc' = "agentTool"
              /\ UNCHANGED <<toolOut, last, stepOutput>>
      /\ UNCHANGED <<aside, inputData, replyOutput, failure, locals, timer>>

\* generateText of enhancePrompt resolves
EnhanceResolves(response) ==
  /\ wfPc = "agentTool" /\ tool.name = "enhance"
  /\ Finish("enhance", tool.originalPrompt,
            enhanceSuccess(response, tool.originalPrompt, tool.style),
            steps, 1, <<Return(response)>>, text)
  /\ UNCHANGED <<aside, inputData, replyOutput, failure, locals, steps, text,
                 timer, calls>>

\* generateText of enhancePrompt rejects
EnhanceRejects(e) ==
  /\ wfPc = "agentTool" /\ tool.name = "enhance"
  /\ Finish("enhance", tool.originalPrompt,
            enhanceCatch(e, tool.originalPrompt, tool.style),
            steps, 1, <<Throw(e)>>, text)
  /\ UNCHANGED <<aside, inputData, replyOutput, failure, locals, steps, text,
                 timer, calls>>

\* ----------------------------------------------------- generateImage
AbortError == Err(Msg("This operation was aborted"))

\* the hosted model calls generate-image-tool: validation, truncation, clamping,
\* the timer is armed and fetch is issued
AgentCallsImage(prompt, dimArgs, t) ==
  LET widthArg == dimArgs[1]
      heightArg == dimArgs[2]
      width == IF widthArg.isNull THEN DefaultDimension ELSE widthArg.v
      height == IF heightArg.isNull THEN DefaultDimension ELSE heightArg.v
      checked == imageValidate(prompt)
  IN  /\ wfPc = "agentModel"
      /\ steps' = steps + 1
      /\ text' = t
      /\ IF checked.kind = "throw"
         THEN /\ Finish("image", prompt, imageCatch(checked.error, prompt),
                        steps + 1, 0, <<>>, t)
              /\ UNCHANGED <<calls, timer>>
         ELSE /\ tool' = [name |-> "image", pc |-> "fetch", arg |-> prompt,
                          prompt |-> truncatePrompt(prompt),
                          url |-> imageRequest(prompt, width, height),
                          elapsed |-> FALSE]
              /\ timer' = "armed"
              /\ calls' = [calls EXCEPT !["image"] = @ + 1]
              /\ wfPc' = "agentTool"
              /\ UNCHANGED <<toolOut, last, stepOutput>>
      /\ UNCHANGED <<aside, inputData, replyOutput, failure, locals>>

\* fetch resolves with the response headers: clearTimeout, then the checks
FetchResolves(response) ==
  LET checked == imageCheckResponse(response)
  IN  /\ wfPc = "agentTool" /\ tool.name = "image" /\ tool.pc = "fetch"
      /\ timer' = "none"
      /\ IF checked.kind = "throw"
         THEN Finish("image", tool.arg, imageCatch(checked.error, tool.prompt),
                     steps, 1, <<Return(response)>>, text)
         ELSE /\ tool' = [tool EXCEPT !.pc = "arrayBuffer"] @@ [response |-> response]
              /\ UNCHANGED <<toolOut, last, wfPc, stepOutput>>
      /\ UNCHANGED <<aside, inputData, replyOutput, failure, locals, steps, text,
                     calls>>

\* fetch rejects (network error): the catch block runs, the timer stays armed
FetchRejects(e) ==
  /\ wfPc = "agentTool" /\ tool.name = "image" /\ tool.pc = "fetch"
  /\ Finish("image", tool.arg, imageCatch(e, tool.prompt), steps, 1, <<Throw(e)>>, text)
  /\ UNCHANGED <<aside, inputData, replyOutput, failure, locals, steps, text,
                 timer, calls>>

\* response.arrayBuffer() resolves with the whole body
ArrayBufferResolves(body) ==
  /\ wfPc = "agentTool" /\ tool.name = "image" /\ tool.pc = "arrayBuffer"
  /\ Finish("image", tool.arg,
            imageSuccess(tool.prompt, tool.url, tool.response.contentType, body),
            steps, 1, <<Return(tool.response), Return(body)>>, text)
  /\ UNCHANGED <<aside, inputData, replyOutput, failure, locals, steps, text,
                 timer, calls>>

\* response.arrayBuffer() rejects
ArrayBufferRejects(e) ==
  /\ wfPc = "agentTool" /\ tool.name = "image" /\ tool.pc = "arrayBuffer"
  /\ Finish("image", tool.arg, imageCatch(e, tool.prompt),
            steps, 1, <<Return(tool.response), Throw(e)>>, text)
  /\ UNCHANGED <<aside, inputData, replyOutput, failure, locals, steps, text,
                 timer, calls>>

\* 30 s have passed since setTimeout: a pending timer runs controller.abort(),
\* which rejects a pending fetch and does nothing to a settled one; after
\* clearTimeout no timer is left to run
TimeoutElapses ==
  /\ \/ timer = "armed"
     \/ wfPc = "agentTool" /\ tool.name = "image" /\ ~tool.elapsed
  /\ timer' = "none"
  /\ IF wfPc = "agentTool" /\ tool.name = "image"
     THEN IF timer = "armed" /\ tool.pc = "fetch"
          THEN Finish("image", tool.arg, imageCatch(AbortError, tool.prompt),
                      steps, 1, <<Throw(AbortError)>>, text)
          ELSE /\ tool' = [tool EXCEPT !.elapsed = TRUE]
               /\ UNCHANGED <<toolOut, last, wfPc, stepOutput>>
     ELSE UNCHANGED <<tool, toolOut, last, wfPc, stepOutput>>
  /\ UNCHANGED <<aside, inputData, replyOutput, failure, locals, steps, text, calls>>

\* -------------------------------------------------- generateAsciiArt
\* both text generations started together, without waiting for the art
AgentCallsAsciiTogether(prompt, t) ==
  LET checked == asciiValidate(prompt)
  IN  /\ wfPc = "agentModel"
      /\ steps' = steps + 1
      /\ text' = t
      /\ IF checked.kind = "throw"
         THEN /\ Finish("ascii", prompt, asciiCatch(checked.error, prompt),
                        steps + 1, 0, <<>>, t)
              /\ UNCHANGED calls
         ELSE /\ tool' = [name |-> "ascii", pc |-> "art", prompt |-> prompt]
              /\ calls' = [calls EXCEPT !["ascii"] = @ + 2]
              /\ wfPc' = "agentTool"
              /\ UNCHANGED <<toolOut, last, stepOutput>>
      /\ UNCHANGED <<aside, inputData, replyOutput, failure, locals, timer>>

\* the hosted model calls ascii-art-fallback-tool: validation, then the art call
AgentCallsAscii(prompt, t) ==
  LET checked == asciiValidate(prompt)
  IN  /\ wfPc = "agentModel"
      /\ steps' = steps + 1
      /\ text' = t
      /\ IF checked.kind = "throw"
         THEN /\ Finish("ascii", prompt, asciiCatch(checked.error, prompt),
                        steps + 1, 0, <<>>, t)
              /\ UNCHANGED calls
         ELSE /\ tool' = [name |-> "ascii", pc |-> "art", prompt |-> prompt]
              /\ calls' = [calls EXCEPT !["ascii"] = @ + 1]
              /\ wfPc' = "agentTool"
              /\ UNCHANGED <<toolOut, last, stepOutput>>
      /\ UNCHANGED <<aside, inputData, replyOutput, failure, locals, timer>>

\* the art call resolves: asciiArt = text.trim(), then the description call is issued
AsciiArtResolves(response) ==
  /\ wfPc = "agentTool" /\ tool.name = "ascii" /\ tool.pc = "art"
  /\ tool' = [tool EXCEPT !.pc = "description"]
             @@ [asciiArt |-> trim(response), artResponse |-> response]
  /\ calls' = [calls EXCEPT !["ascii"] = @ + 1]
  /\ UNCHANGED <<aside, inputData, wfPc, stepOutput, replyOutput, failure, locals, steps, text,
                 toolOut, timer, last>>

\* the art call rejects
AsciiArtRejects(e) ==
  /\ wfPc = "agentTool" /\ tool.name = "ascii" /\ tool.pc = "art"
  /\ Finish("ascii", tool.prompt, asciiCatch(e, tool.prompt), steps, 1, <<Throw(e)>>, text)
  /\ UNCHANGED <<aside, inputData, replyOutput, failure, locals, steps, text,
                 timer, calls>>

\* the description call resolves
AsciiDescriptionResolves(response) ==
  /\ wfPc = "agentTool" /\ tool.name = "ascii" /\ tool.pc = "description"
  /\ Finish("ascii", tool.prompt, asciiSuccess(tool.asciiArt, response, tool.prompt),
            steps, 2, <<Return(tool.artResponse), Return(response)>>, text)
  /\ UNCHANGED <<aside, inputData, replyOutput, failure, locals, steps, text,
                 timer, calls>>

\* a failure of the description call that keeps the art of the first call
AsciiDescriptionRejectsKeepsArt(e) ==
  /\ wfPc = "agentTool" /\ tool.name = "ascii" /\ tool.pc = "description"
  /\ Finish("ascii", tool.prompt,
            Return([asciiCatch(e, tool.prompt).value EXCEPT !.asciiArt = tool.asciiArt]),
            steps, 2, <<Return(tool.artResponse), Throw(e)>>, text)
  /\ UNCHANGED <<aside, inputData, replyOutput, failure, locals, steps, text, timer, calls>>

\* the description call rejects
AsciiDescriptionRejects(e) ==
  /\ wfPc = "agentTool" /\ tool.name = "ascii" /\ tool.pc = "description"
  /\ Finish("ascii", tool.prompt, asciiCatch(e, tool.prompt),
            steps, 2, <<Return(tool.artResponse), Throw(e)>>, text)
  /\ UNCHANGED <<aside, inputData, replyOutput, failure, locals, steps, text,
                 timer, calls>>

\* ------------------------------------------------------ specification
Next ==
  \/ UseAgentStart
  \/ \E t \in AgentTexts : AgentFinishes(t)
  \/ \E e \in Thrown : AgentFails(e)
  \/ SendReply
  \/ \E p \in ArgPrompts, s \in StyleArgs, t \in AgentTexts : AgentCallsEnhance(p, s, t)
  \/ \E r \in ModelTexts : EnhanceResolves(r)
  \/ \E e \in Thrown : EnhanceRejects(e)
  \/ \E p \in ArgPrompts, d \in DimArgs, t \in AgentTexts : AgentCallsImage(p, d, t)
  \/ \E r \in Responses : FetchResolves(r)
  \/ \E e \in Thrown : FetchRejects(e)
  \/ \E b \in Bodies : ArrayBufferResolves(b)
  \/ \E e \in Thrown : ArrayBufferRejects(e)
  \/ TimeoutElapses
  \/ \E p \in ArgPrompts, t \in AgentTexts : AgentCallsAscii(p, t)
  \/ \E r \in ModelTexts : AsciiArtResolves(r)
  \/ \E e \in Thrown : AsciiArtRejects(e)
  \/ \E r \in ModelTexts : AsciiDescriptionResolves(r)
  \/ \E e \in Thrown : AsciiDescriptionRejects(e)

Spec == Init /\ [][Next]_vars

\* ------------------------------------------- generateImage on its own
\* lengths and sizes around the limits of generateImage
Near(limit) == { n \in (limit - Slack)..(limit + Slack) : n >= 0 }

PromptLengths == Near(0) \cup Near(MaxPromptLength)

\* prompts of lead spaces, body letters and trail spaces, as <<lead, body, trail>>
PromptShapes == PromptLengths \X PromptLengths \X (0..Slack)

DimInputs == ((0 - Slack)..0) \cup Near(MinDimension) \cup Near(MaxDimension)

\* generateImage from its first line to the URL of the request (or to the
\* catch block when validation throws), called with a prompt and two sizes
GenerateImageRequest(shape, width, height) ==
  LET prompt == Str(shape[1], shape[2], shape[3])
      checked == imageValidate(prompt)
  IN  /\ probe' =
           IF checked.kind = "throw"
           THEN [kind |-> "rejected", shape |-> shape, prompt |-> prompt,
                 out |-> imageCatch(checked.error, prompt)]
           ELSE [kind |-> "request", shape |-> shape, prompt |-> prompt,
                 width |-> width, height |-> height,
                 truncated |-> truncatePrompt(prompt),
                 url |-> imageRequest(prompt, width, height),
                 prev |-> IF probe.kind = "request"
                          THEN [kind |-> "request", width |-> probe.width,
                                height |-> probe.height, url |-> probe.url]
                          ELSE NoResult]
      /\ UNCHANGED <<inputData, wfPc, stepOutput, replyOutput, failure, locals, steps, text,
                     tool, toolOut, timer, calls, last, reqs, memory>>

InitRequest == Init /\ inputData.message = Unparsable

NextRequest ==
  \/ \E shape \in PromptShapes :
       GenerateImageRequest(shape, DefaultDimension, DefaultDimension)
  \/ \E w \in DimInputs, h \in DimInputs : GenerateImageRequest(<<0, 1, 0>>, w, h)

SpecRequest == InitRequest /\ [][NextRequest]_vars

\* ------------------------------------------------- concurrent requests
\* Each request is one run of agent.generate on the one imageGeneratorAgent:
\* the agent recalls the stored messages of the request's thread, the hosted
\* model may call generate-image-tool once, and the exchange is stored.
Requests == 1..NumRequests

Threads == {"thread-1", "thread-2"}

\* the message text of request r
textOf(r) == Str(0, r, 0)

\* options.lastMessages: the messages of a thread the agent recalls
recall(messages) ==
  IF Len(messages) <= lastMessages THEN messages
  ELSE SubSeq(messages, Len(messages) - lastMessages + 1, Len(messages))

\* what the image service may answer to a concurrent request
ConcResponses == { r \in Responses : r.contentType = Some(ImagePng) }

ConcBody == [i \in 1..1 |-> 137]

ConcError == Err(Msg("network error"))

InitConcurrent ==
  /\ InitWorkflow({Unparsable})
  /\ probe = NoResult
  /\ reqs \in [Requests -> { [pc |-> "start", threadId |-> t] : t \in Threads }]
  /\ memory = [t \in Threads |-> <<>>]

\* the image call of request r ends with out
concEnd(r, out, responses) ==
  reqs' = [reqs EXCEPT ![r] = [pc |-> "ended", threadId |-> reqs[r].threadId,
                               recalled |-> reqs[r].recalled, prompt |-> reqs[r].prompt,
                               elapsed |-> reqs[r].elapsed,
                               responses |-> responses, out |-> out]]

quiet == <<inputData, wfPc, stepOutput, replyOutput, failure, locals, steps, text,
           tool, toolOut, timer, calls, last, probe>>

\* useAgentStep of request r calls imageGeneratorAgent.generate with its threadId
ConcGenerate(r) ==
  /\ reqs[r].pc = "start"
  /\ reqs' = [reqs EXCEPT ![r] = [pc |-> "agent", threadId |-> reqs[r].threadId,
                                  recalled |-> recall(memory[reqs[r].threadId])]]
  /\ UNCHANGED <<memory, quiet>>

\* prompts the hosted model of request r has before it: the message and what was recalled
concPrompts(r) ==
  IF reqs[r].pc # "agent" THEN {}
  ELSE {textOf(r)}
       \cup { reqs[r].recalled[i].content : i \in 1..Len(reqs[r].recalled) }

\* the hosted model of request r calls generate-image-tool
ConcCallsImage(r, prompt) ==
  LET checked == imageValidate(prompt)
  IN  /\ reqs[r].pc = "agent"
      /\ IF checked.kind = "throw"
         THEN reqs' = [reqs EXCEPT ![r] =
                         [pc |-> "ended", threadId |-> reqs[r].threadId,
                          recalled |-> reqs[r].recalled, prompt |-> prompt,
                          elapsed |-> FALSE, responses |-> <<>>,
                          out |-> imageCatch(checked.error, prompt)]]
         ELSE reqs' = [reqs EXCEPT ![r] =
                         [pc |-> "fetch", threadId |-> reqs[r].threadId,
                          recalled |-> reqs[r].recalled, prompt |-> truncatePrompt(prompt),
                          url |-> imageRequest(prompt, DefaultDimension, DefaultDimension),
                          timer |-> "armed", elapsed |-> FALSE]]
      /\ UNCHANGED <<memory, quiet>>

\* fetch of request r resolves: clearTimeout on its own timer, then the checks
ConcFetchResolves(r, response) ==
  LET checked == imageCheckResponse(response)
  IN  /\ reqs[r].pc = "fetch"
      /\ IF checked.kind = "throw"
         THEN concEnd(r, imageCatch(checked.error, reqs[r].prompt), <<Return(response)>>)
         ELSE reqs' = [reqs EXCEPT ![r] =
                         [reqs[r] EXCEPT !.pc = "arrayBuffer", !.timer = "none"]
                         @@ [response |-> response]]
      /\ UNCHANGED <<memory, quiet>>

\* fetch of request r rejects
ConcFetchRejects(r, e) ==
  /\ reqs[r].pc = "fetch"
  /\ concEnd(r, imageCatch(e, reqs[r].prompt), <<Throw(e)>>)
  /\ UNCHANGED <<memory, quiet>>

\* the body of request r arrives
ConcArrayBufferResolves(r, body) ==
  /\ reqs[r].pc = "arrayBuffer"
  /\ concEnd(r, imageSuccess(reqs[r].prompt, reqs[r].url, reqs[r].response.contentType, body),
             <<Return(reqs[r].response), Return(body)>>)
  /\ UNCHANGED <<memory, quiet>>

\* the body read of request r rejects
ConcArrayBufferRejects(r, e) ==
  /\ reqs[r].pc = "arrayBuffer"
  /\ concEnd(r, imageCatch(e, reqs[r].prompt), <<Return(reqs[r].response), Throw(e)>>)
  /\ UNCHANGED <<memory, quiet>>

\* one controller for all calls: the timer of request r aborts every pending fetch
ConcTimeoutElapsesShared(r) ==
  /\ reqs[r].pc = "fetch" /\ reqs[r].timer = "armed"
  /\ reqs' = [q \in Requests |->
               IF reqs[q].pc = "fetch"
               THEN [pc |-> "ended", threadId |-> reqs[q].threadId,
                     recalled |-> reqs[q].recalled, prompt |-> reqs[q].prompt,
                     elapsed |-> (q = r), responses |-> <<Throw(AbortError)>>,
                     out |-> imageCatch(AbortError, reqs[q].prompt)]
               ELSE reqs[q]]
  /\ UNCHANGED <<memory, quiet>>

\* 30 s after request r armed its timer: its own controller aborts its own fetch
ConcTimeoutElapses(r) ==
  /\ reqs[r].pc = "fetch" /\ reqs[r].timer = "armed"
  /\ reqs' = [reqs EXCEPT ![r] =
                [pc |-> "ended", threadId |-> reqs[r].threadId,
                 recalled |-> reqs[r].recalled, prompt |-> reqs[r].prompt,
                 elapsed |-> TRUE, responses |-> <<Throw(AbortError)>>,
                 out |-> imageCatch(AbortError, reqs[r].prompt)]]
  /\ UNCHANGED <<memory, quiet>>

\* agent.generate of request r resolves: the exchange is stored in its thread
ConcReturns(r, t) ==
  /\ reqs[r].pc \in {"agent", "ended"}
  /\ reqs' = [reqs EXCEPT ![r] = [reqs[r] EXCEPT !.pc = "returned"]]
  /\ memory' = [memory EXCEPT ![reqs[r].threadId] =
                  @ \o << [role |-> "user", content |-> textOf(r)],
                           [role |-> "assistant", content |-> t] >>]
  /\ UNCHANGED quiet

NextConcurrent ==
  \E r \in Requests :
    \/ ConcGenerate(r)
    \/ \E p \in concPrompts(r) : ConcCallsImage(r, p)
    \/ \E response \in ConcResponses : ConcFetchResolves(r, response)
    \/ ConcFetchRejects(r, ConcError)
    \/ ConcArrayBufferResolves(r, ConcBody)
    \/ ConcArrayBufferRejects(r, ConcError)
    \/ ConcTimeoutElapses(r)
    \/ \E t \in AgentTexts : ConcReturns(r, t)

SpecConcurrent == InitConcurrent /\ [][NextConcurrent]_vars

\* ------------------------------------------------------------ claims
\* the hosted model's generation numbered steps' invokes stage s
Invoked(s) ==
  /\ steps' = steps + 1
  /\ \/ tool'.name = s
     \/ toolOut'.kind = "ended" /\ toolOut'.name = s /\ toolOut'.step = steps'

\* a tool call ends in this step
Ends == toolOut'.kind = "ended" /\ toolOut' # toolOut

\* C1: a stage called with a prompt that is empty after trimming ends in the
\* step that called it, with success=false, and no external call (generateText,
\* fetch) is issued in that invocation.
C1_BlankPromptFailsWithoutCall ==
  [][(Ends /\ isBlank(toolOut'.prompt)) =>
       /\ wfPc = "agentModel"
       /\ toolOut'.out.kind = "return"
       /\ toolOut'.out.value.success = FALSE
       /\ toolOut'.issued = 0
       /\ calls' = calls]_vars

\* all three stages have been called with a whitespace-only prompt and have failed
\* without an external call
C1_Witness ==
  /\ toolOut.kind = "ended"
  /\ toolOut.prompt # <<>> /\ isBlank(toolOut.prompt)
  /\ \A s \in Stages : last[s] = "failed" /\ calls[s] = 0

\* C2: a request never stops without a reply having been delivered.
C2_StoppedOnlyAfterDelivery ==
  wfPc \in {"done", "failed"} => (replyOutput.kind = "return" /\ replyOutput.value.sent)

\* C3: the ascii-art fallback is invoked only when the latest image synthesis of
\* the request returned success=false, and a request whose synthesis failed does
\* not go to delivery without the fallback.
C3_FallbackIffSynthesisFailed ==
  /\ [][Invoked("ascii") => last["image"] = "failed"]_vars
  /\ []((wfPc = "sendReply" /\ last["image"] = "failed") => last["ascii"] # "none")

\* C4: when enhancement and synthesis both succeeded, the payload handed to
\* send-reply holds the image bytes and a mimeType.
C4_DeliveredPayloadHoldsImage ==
  (wfPc \in {"sendReply", "done"} /\ last["enhance"] = "ok" /\ last["image"] = "ok") =>
    /\ "imageBase64" \in DOMAIN stepOutput.value
    /\ "mimeType" \in DOMAIN stepOutput.value

\* C5: for a message text that is empty after trimming, no stage issues an
\* external call at any point of the request.
C5_BlankRequestMakesNoCall ==
  (locals.kind = "parsed" /\ isBlank(locals.messageText)) => \A s \in Stages : calls[s] = 0

\* the envelope is unparsable, parses to a non-object, or lacks message.text
Malformed(raw) ==
  \/ ~raw.parsable
  \/ raw.json.t # "obj"
  \/ optionalMember(optionalMember(raw.json, "message"), "text").t = "undefined"

\* C6: on a malformed envelope use-agent does not throw while reading it: once
\* the step has started, the prompt has been read as the empty string.
C6_MalformedEnvelopeReadsAsEmpty ==
  (Malformed(inputData.message) /\ wfPc # "start") =>
    (locals.kind = "parsed" /\ locals.messageText = <<>>)

\* C7: every stage invocation ends by returning a result with a boolean success
\* and a message, and with an error string when success=false; none ends by throwing.
C7_StagesNeverThrow ==
  toolOut.kind = "ended" =>
    /\ toolOut.out.kind = "return"
    /\ toolOut.out.value.success \in BOOLEAN
    /\ "message" \in DOMAIN toolOut.out.value
    /\ length(toolOut.out.value.message) > 0
    /\ ~toolOut.out.value.success =>
         ("error" \in DOMAIN toolOut.out.value /\ length(toolOut.out.value.error) > 0)

\* generateImage has returned a failure after the body read rejected with a
\* value that is not an Error
C7_Witness ==
  /\ toolOut.kind = "ended" /\ toolOut.name = "image"
  /\ Len(toolOut.responses) = 2
  /\ toolOut.responses[2].kind = "throw" /\ ~toolOut.responses[2].error.isError
  /\ toolOut.out.kind = "return" /\ ~toolOut.out.value.success

\* C8: once 30 s have passed since generateImage armed its timer, generateImage
\* is no longer waiting on the image service.
C8_NoWaitAfterTimeout ==
  ~(wfPc = "agentTool" /\ tool.name = "image" /\ tool.elapsed)

\* C9: generateAsciiArt returns either both texts of the model (trimmed) with
\* success=true, when both calls resolved, or both placeholders with
\* success=false and an error; never one of each.
C9_AsciiBothOrPlaceholder ==
  (toolOut.kind = "ended" /\ toolOut.name = "ascii") =>
    LET v == toolOut.out.value
        r == toolOut.responses
        bothResolved == Len(r) = 2 /\ r[1].kind = "return" /\ r[2].kind = "return"
    IN  /\ v.success <=> bothResolved
        /\ v.success =>
             (v.asciiArt = trim(r[1].value) /\ v.description = trim(r[2].value))
        /\ ~v.success =>
             /\ v.asciiArt = fallbackArt
             /\ v.description = fallbackDescription(toolOut.prompt)
             /\ "error" \in DOMAIN v

\* the art call resolved with non-empty art and the description call failed
C9_Witness ==
  /\ toolOut.kind = "ended" /\ toolOut.name = "ascii"
  /\ Len(toolOut.responses) = 2
  /\ toolOut.responses[1].kind = "return" /\ trim(toolOut.responses[1].value) # <<>>
  /\ toolOut.responses[2].kind = "throw"
  /\ ~toolOut.out.value.success

\* C10: a request issues at most one enhancement call, one image call and two
\* fallback text generations, and no stage is invoked again after it failed.
C10_CallsBoundedNoRetry ==
  /\ [](calls["enhance"] <= 1 /\ calls["image"] <= 1 /\ calls["ascii"] <= 2)
  /\ [][\A s \in Stages : Invoked(s) => last[s] # "failed"]_vars

\* C11: the width and height in the request URL lie in [256, 1024], equal the
\* input when it is in that range, each depend on their own input only, and do
\* not decrease when the input grows.
C11_DimensionsClamped ==
  probe.kind = "request" =>
    /\ probe.url.width \in 256..1024
    /\ probe.url.height \in 256..1024
    /\ probe.width \in 256..1024 => probe.url.width = probe.width
    /\ probe.height \in 256..1024 => probe.url.height = probe.height
    /\ probe.prev.kind = "request" =>
         /\ probe.prev.width = probe.width => probe.prev.url.width = probe.url.width
         /\ probe.prev.height = probe.height => probe.prev.url.height = probe.url.height
         /\ probe.prev.width <= probe.width => probe.prev.url.width <= probe.url.width
         /\ probe.prev.height <= probe.height => probe.prev.url.height <= probe.url.height

\* a request with a negative width and a height above 1024, after a request with
\* the same width and a height in range
C11_Witness ==
  /\ probe.kind = "request"
  /\ probe.width < 0 /\ probe.height > 1024
  /\ probe.prev.kind = "request"
  /\ probe.prev.width = probe.width /\ probe.prev.height \in 257..1023

\* the first k characters of lead spaces, body letters and trail spaces
FirstOf(shape, k) ==
  LET lead == IF shape[1] < k THEN shape[1] ELSE k
      body == IF shape[2] < k - lead THEN shape[2] ELSE k - lead
      trail == IF shape[3] < k - lead - body THEN shape[3] ELSE k - lead - body
  IN  Str(lead, body, trail)

C20_UrlPromptNonEmpty ==
  probe.kind = "request" => length(probe.url.prompt) > 0

\* C13: every result of enhancePrompt has a non-empty enhancedPrompt.
C13_EnhancedPromptNonEmpty ==
  (toolOut.kind = "ended" /\ toolOut.name = "enhance" /\ toolOut.out.kind = "return") =>
    length(toolOut.out.value.enhancedPrompt) > 0

\* C14: every result of generateAsciiArt has a non-empty asciiArt and a
\* non-empty description.
C14_ArtAndDescriptionNonEmpty ==
  (toolOut.kind = "ended" /\ toolOut.name = "ascii" /\ toolOut.out.kind = "return") =>
    /\ length(toolOut.out.value.asciiArt) > 0
    /\ length(toolOut.out.value.description) > 0

\* C15: a result of generateImage with success=true holds a non-null
\* imageBase64 and a non-null mimeType beginning with "image/", and is returned
\* only after a response with a 2xx status and that content type whose body was read.
C15_SuccessHoldsImage ==
  (toolOut.kind = "ended" /\ toolOut.name = "image" /\ toolOut.out.value.success) =>
    LET v == toolOut.out.value
        r == toolOut.responses
    IN  /\ ~v.imageBase64.isNull
        /\ ~v.mimeType.isNull
        /\ Len(v.mimeType.v) > 0 /\ v.mimeType.v[1] = [c |-> "image/", n |-> 6]
        /\ Len(r) = 2 /\ r[1].kind = "return" /\ r[2].kind = "return"
        /\ r[1].value.status \in 200..299
        /\ r[1].value.contentType = v.mimeType
        /\ v.imageBase64.v = base64(r[2].value)

\* generateImage has returned success=true for a body of at least one byte
C15_Witness ==
  /\ toolOut.kind = "ended" /\ toolOut.name = "image"
  /\ toolOut.out.value.success
  /\ Len(toolOut.responses) = 2 /\ Len(toolOut.responses[2].value) > 0

\* the characters of a text, as one string
RECURSIVE repeated(_, _)
repeated(c, n) == IF n = 0 THEN "" ELSE c \o repeated(c, n - 1)

RECURSIVE render(_)
render(t) ==
  IF t = <<>> THEN ""
  ELSE (IF t[1].c \in Chars THEN repeated(t[1].c, t[1].n) ELSE SubSeq(t[1].c, 1, t[1].n))
       \o render(Tail(t))

\* C16: on a response with a status outside 2xx, or with a content type that is
\* missing or does not begin with "image/", generateImage returns success=false
\* with imageBase64 and mimeType null and an error naming the status or, for a
\* 2xx status, the content type; the body is not read.
C16_BadResponseFailsWithReason ==
  (/\ toolOut.kind = "ended" /\ toolOut.name = "image"
   /\ Len(toolOut.responses) > 0 /\ toolOut.responses[1].kind = "return"
   /\ LET resp == toolOut.responses[1].value
      IN  \/ resp.status \notin 200..299
          \/ resp.contentType.isNull
          \/ resp.contentType.v = <<>>
          \/ resp.contentType.v[1] # [c |-> "image/", n |-> 6]) =>
    LET v == toolOut.out.value
        resp == toolOut.responses[1].value
    IN  /\ ~v.success
        /\ v.imageBase64.isNull /\ v.mimeType.isNull
        /\ Len(toolOut.responses) = 1
        /\ render(v.error) =
             IF resp.status \notin 200..299
             THEN "Pollinations API failed: " \o ToString(resp.status) \o " "
                  \o render(resp.statusText)
             ELSE "Invalid content type received: "
                  \o (IF resp.contentType.isNull THEN "null" ELSE render(resp.contentType.v))

\* generateImage has failed on a 503 response whose content type is not an image
C16_Witness ==
  /\ toolOut.kind = "ended" /\ toolOut.name = "image"
  /\ Len(toolOut.responses) = 1 /\ toolOut.responses[1].kind = "return"
  /\ toolOut.responses[1].value.status = 503
  /\ toolOut.responses[1].value.contentType = Some(TextHtml)
  /\ ~toolOut.out.value.success

\* C17: when the generateText call of enhancePrompt fails, the result has
\* success=false and enhancedPrompt is originalPrompt, then ", high quality,
\* detailed, ", the style ("realistic" when none was given), then " style,
\* professional photography", whatever the error was.
C17_FallbackPromptTemplate ==
  [][(/\ wfPc = "agentTool" /\ tool.name = "enhance"
      /\ Ends /\ toolOut'.responses[1].kind = "throw") =>
       /\ toolOut'.out.kind = "return"
       /\ ~toolOut'.out.value.success
       /\ render(toolOut'.out.value.enhancedPrompt) =
            render(tool.originalPrompt) \o ", high quality, detailed, "
            \o (IF tool.styleArg.isNull THEN "realistic" ELSE render(tool.styleArg.v))
            \o " style, professional photography"]_vars

\* enhancePrompt has fallen back after its call threw a value that is not an
\* Error, for a prompt with a leading space and a style other than the default
C17_Witness ==
  /\ toolOut.kind = "ended" /\ toolOut.name = "enhance"
  /\ Len(toolOut.responses) = 1 /\ toolOut.responses[1].kind = "throw"
  /\ ~toolOut.responses[1].error.isError
  /\ toolOut.out.value.style # DefaultStyle
  /\ ~toolOut.out.value.success

\* C19: the image stage called right after an enhancement gets that
\* enhancement's enhancedPrompt, and the ascii-art fallback always gets the
\* user's original message text.
C19_PromptsPassedBetweenStages ==
  /\ [][(/\ Invoked("image")
         /\ toolOut.kind = "ended" /\ toolOut.name = "enhance"
         /\ toolOut.out.kind = "return") =>
          (IF tool'.name = "image" THEN tool'.arg ELSE toolOut'.prompt)
            = toolOut.out.value.enhancedPrompt]_vars
  /\ [][Invoked("ascii") =>
          (IF tool'.name = "ascii" THEN tool'.prompt ELSE toolOut'.prompt)
            = locals.messageText]_vars

\* C18 as stated: concurrent requests share no mutable state, so a request
\* recalls nothing another request stored and its image prompt is its own text.
C18_NoSharedState ==
  \A r \in Requests :
    /\ reqs[r].pc # "start" =>
         \A i \in 1..Len(reqs[r].recalled) :
           reqs[r].recalled[i].role = "user" => reqs[r].recalled[i].content = textOf(r)
    /\ reqs[r].pc \in {"fetch", "arrayBuffer", "ended"} => reqs[r].prompt = textOf(r)

\* C18, amended: the stored messages of a thread are the only state requests
\* share.  A step changes the state of one request at most; the stored
\* messages change only in the thread of a request that returns in that step; a
\* request recalls only messages of its own thread; and an image call ends with
\* the abort error only when its own 30 s have elapsed.
C18_OnlyThreadMemoryShared ==
  /\ [][\A q \in Requests :
          /\ reqs'[q] # reqs[q] => \A p \in Requests \ {q} : reqs'[p] = reqs[p]
          /\ (reqs'[q].pc = "ended" /\ reqs[q].pc # "ended"
              /\ ~reqs'[q].out.value.success
              /\ reqs'[q].out.value.error = AbortError.message) => reqs'[q].elapsed
          /\ \A t \in Threads :
               memory'[t] # memory[t] =>
                 \E r \in Requests : /\ reqs[r].threadId = t
                                     /\ reqs[r].pc # "returned" /\ reqs'[r].pc = "returned"]_vars
  /\ [](\A r \in Requests :
          reqs[r].pc # "start" =>
            \A i \in 1..Len(reqs[r].recalled) :
              \E j \in 1..Len(memory[reqs[r].threadId]) :
                memory[reqs[r].threadId][j] = reqs[r].recalled[i])

\* two requests of one thread are in progress: the image call of request 1 was
\* aborted by its own timeout and request 2 is still waiting for its response
C18_Witness ==
  /\ reqs[1].pc = "ended" /\ reqs[1].elapsed
  /\ reqs[2].pc = "fetch" /\ reqs[2].timer = "armed"
  /\ reqs[1].threadId = reqs[2].threadId

\* C21: generateAsciiArt issues its two text generations one after the other.
\* A text generation is issued only by the step that starts the art call
\* (prompt not blank) or by the step in which the art call returns, which
\* starts the description call; every other step issues none, so at most one
\* is in flight.  An invocation ends after 0 calls exactly when its prompt is
\* blank, after 1 call exactly when the art call failed, and otherwise after 2.
C21_AsciiCallsSequential ==
  [][LET issuedNow == calls'["ascii"] - calls["ascii"]
         running == wfPc = "agentTool" /\ tool.name = "ascii"
         startsArt == ~running /\ tool'.name = "ascii" /\ tool'.pc = "art"
         startsDescription == running /\ tool.pc = "art"
                              /\ tool'.name = "ascii" /\ tool'.pc = "description"
         endsAscii == Ends /\ toolOut'.name = "ascii"
     IN  /\ issuedNow \in {0, 1}
         /\ issuedNow = 1 <=> (startsArt \/ startsDescription)
         /\ startsArt => (wfPc = "agentModel" /\ ~isBlank(tool'.prompt))
         /\ startsDescription =>
              (tool'.prompt = tool.prompt /\ tool'.asciiArt = trim(tool'.artResponse))
         /\ (tool'.name = "ascii" /\ tool'.pc = "description") =>
              (startsDescription \/ (running /\ tool' = tool))
         /\ endsAscii =>
              /\ toolOut'.issued = Len(toolOut'.responses)
              /\ \/ /\ toolOut'.issued = 0
                    /\ ~running /\ isBlank(toolOut'.prompt)
                 \/ /\ toolOut'.issued = 1
                    /\ running /\ tool.pc = "art"
                    /\ toolOut'.responses[1].kind = "throw"
                 \/ /\ toolOut'.issued = 2
                    /\ running /\ tool.pc = "description"
                    /\ toolOut'.responses[1] = Return(tool.artResponse)]_vars

\* an invocation ended after two calls, the second of which failed, and the
\* request has issued exactly those two
C21_Witness ==
  /\ toolOut.kind = "ended" /\ toolOut.name = "ascii"
  /\ toolOut.issued = 2 /\ toolOut.responses[2].kind = "throw"
  /\ calls["ascii"] = 2

\* message.chat.id as written in the inbound envelope raw
chatIdIn(raw) ==
  IF ~raw.parsable \/ raw.json.t # "obj" \/ "message" \notin DOMAIN raw.json.fields
  THEN Undefined
  ELSE LET message == raw.json.fields["message"]
       IN  IF message.t # "obj" \/ "chat" \notin DOMAIN message.fields THEN Undefined
           ELSE LET chat == message.fields["chat"]
                IN  IF chat.t # "obj" \/ "id" \notin DOMAIN chat.fields THEN Undefined
                    ELSE chat.fields["id"]

\* C22: the workflow runs use-agent, then send-reply, and no step after it.
\* send-reply starts only when use-agent has returned its output; when it runs
\* it returns sent=true with the chat id read from the inbound envelope
\* ("unknown" when message.chat.id is absent), which is the chatId it
\* received, and leaves chatId, response and messageText as it received them.
C22_TwoStepsInOrderReplyToChat ==
  /\ [](wfPc \in {"sendReply", "done"} =>
          (stepOutput.kind = "return" /\ failure = NoResult /\ tool = Idle))
  /\ [](replyOutput # NoResult <=> wfPc = "done")
  /\ [][/\ wfPc = "done" => UNCHANGED <<wfPc, replyOutput, stepOutput, failure, steps, tool, toolOut>>
        /\ stepOutput # NoResult => stepOutput' = stepOutput
        /\ replyOutput' # replyOutput =>
             LET id == chatIdIn(inputData.message)
                 out == replyOutput'.value
             IN  /\ wfPc = "sendReply" /\ wfPc' = "done"
                 /\ replyOutput'.kind = "return"
                 /\ out.sent = TRUE
                 /\ out.chatId = stepOutput.value.chatId
                 /\ id.t = "undefined" => out.chatId = Msg("unknown")
                 /\ id.t = "num" => out.chatId = Msg(ToString(id.num))
                 /\ stepOutput' = stepOutput /\ inputData' = inputData
                 /\ stepOutput.value.messageText = locals.messageText
                 /\ stepOutput.value.response = text]_vars

\* send-reply has run for an envelope that names its chat
C22_Witness ==
  /\ wfPc = "done"
  /\ replyOutput = Return([sent |-> TRUE, chatId |-> Msg("42")])
  /\ chatIdIn(inputData.message) = JNum(42)

====
